---------------------------- MODULE Spec2Model ----------------------------
(***************************************************************************)
(* TickerEngine (rust/ticker_core/src/engine.rs): a background price-feed  *)
(* simulator.  Caller threads invoke start_tracking, cancel and            *)
(* drain_updates on one engine; start_tracking spawns a producer thread    *)
(* that, until it observes the cancel flag, walks the price of every       *)
(* tracked symbol, hands each update to the listener and appends it to the *)
(* shared queue, then sleeps 500 ms.                                       *)
(*                                                                         *)
(* Every atomic operation of the code (one SeqCst load, store or swap, one *)
(* critical section of the queue mutex, one listener call) is one action;  *)
(* the producer's lock and its push are two, so that the guard is visible. *)
(* Prices are integers in units of 0.01.                                   *)
(***************************************************************************)
EXTENDS Naturals, Integers, Sequences, FiniteSets

(* ------------------------------ bounds -------------------------------- *)

\* Number of caller threads sharing the engine.
NumCallers == 2
\* Largest number of producer threads spawned in one behaviour.
MaxRuns == 2
\* Largest number of updates generated in one behaviour.
MaxUpdates == 2
\* Largest max argument of drain_updates.
MaxDrain == 2
\* Largest number of steps of the run that SpecSteps follows.
MaxSteps == 2

Callers == 1..NumCallers

\* Arguments of start_tracking: no symbol, one symbol twice, two symbols.
SymLists == {<< >>, <<"A", "A">>, <<"A", "B">>}

(* ------------------------- program constants -------------------------- *)

\* 0.01, the floor of (*price + delta).max(0.01), in units of 0.01.
Floor == 1
\* rng.gen_range(90.0..110.0): the first and the last base price.
BaseLo == 9000
BaseHi == 10999
\* rng.gen_range(-1.0..1.0): the first and the last delta.
DeltaLo == -100
DeltaHi == 99

\* The base prices and the deltas the model draws from those ranges: both
\* ends where the claim is about prices, the first delta elsewhere.
BasePrices == {BaseLo}
Deltas == {DeltaLo, DeltaHi}
OneDelta == {DeltaLo}
\* Prices a run can have reached after earlier steps (SpecPrice starts here).
WalkedPrices == {Floor, Floor + 1, 50, 100, 101, BaseLo, BaseHi}

(* ------------------------------ state --------------------------------- *)

VARIABLES
    running,        \* EngineState.running
    cancel,         \* EngineState.cancel
    queue,          \* EngineState.queue
    cpc,            \* per caller: where it is inside start_tracking
    csyms,          \* per caller: the symbols argument of that call
    prods,          \* the producer threads spawned so far, in spawn order
    delivered,      \* history: every update passed to listener.on_price
    enqueued,       \* history: every update pushed onto the queue
    drained,        \* history: the Vecs drain_updates returned, concatenated
    last,           \* history: the operation that took the latest step
    cw,             \* history: what the run did after a cancel()
    pend,           \* history: the fate of a cancel() made while running
    cancelSince,    \* history: cancel() called since running was acquired
    lock,           \* the producer that holds the queue mutex's guard, or 0
    poisoned,       \* the queue mutex's poison flag
    quota           \* bound: the updates the behaviour may still generate

vars == <<running, cancel, queue, cpc, csyms, prods,
          delivered, enqueued, drained, last, cw, pend, cancelSince,
          lock, poisoned, quota>>

engine == <<running, cancel, queue, prods>>
history == <<delivered, enqueued, drained>>
mutex == <<lock, poisoned>>

(* ----------------------------- helpers -------------------------------- *)

Max(a, b) == IF a >= b THEN a ELSE b
Min(a, b) == IF a <= b THEN a ELSE b

Range(s) == {s[i] : i \in DOMAIN s}

NoDup(s) == \A i, j \in DOMAIN s : s[i] = s[j] => i = j

\* The sequences that list every element of S exactly once.
Orders(S) ==
    {s \in [1..Cardinality(S) -> S] : Range(s) = S}

NoUpdate == [symbol |-> "", price |-> 0, timestamp_ms |-> 0]

\* A producer thread that has stored running = false (it touches no shared
\* state any more, it only prints and returns) or that has panicked.
Done == [pc |-> "done", symbols |-> << >>, prices |-> << >>,
         idx |-> 0, cur |-> NoUpdate, steps |-> 0]

\* A producer thread as std::thread::spawn starts it: it owns the symbols.
Spawned(symbols) == [pc |-> "start", symbols |-> symbols, prices |-> << >>,
                     idx |-> 0, cur |-> NoUpdate, steps |-> 0]

\* A producer thread that has neither stored running = false nor panicked.
Alive(p) == prods[p].pc # "done"

\* A caller that has swapped running to true and not yet spawned.
Holding(c) == cpc[c] \in {"clear", "spawn"}

CwOff == [armed |-> FALSE, syms |-> << >>, checked |-> FALSE, late |-> FALSE]


(* ------------------------------- Init --------------------------------- *)

\* TickerEngine::new(): not running, not cancelled, empty queue, no thread.
Init ==
    /\ running = FALSE
    /\ cancel = FALSE
    /\ queue = << >>
    /\ cpc = [c \in Callers |-> "idle"]
    /\ csyms = [c \in Callers |-> << >>]
    /\ prods = << >>
    /\ delivered = << >>
    /\ enqueued = << >>
    /\ drained = << >>
    /\ last = "new"
    /\ cw = CwOff
    /\ pend = "none"
    /\ cancelSince = FALSE
    /\ lock = 0
    /\ poisoned = FALSE
    /\ quota = MaxUpdates

(* --------------------------- start_tracking --------------------------- *)

\* Mutant: the empty check left out.
IsEmptyNever(symbols) == FALSE

\* symbols.is_empty()
IsEmpty(symbols) == Len(symbols) = 0

\* Mutant: running.store(true) in place of the swap, the old value ignored.
AlreadyRunningStore(r) == FALSE

\* The value running.swap(true) returns: the flag as it was.
AlreadyRunning(r) == r

\* Threads spawned so far plus those a caller is about to spawn.
RunsTaken == Len(prods) + Cardinality({c \in Callers : Holding(c)})

\* Mutant: cancel.store(false) moved before the swap, so that a call that
\* finds the engine running still clears the flag.
start_tracking_clears_first(c, symbols) ==
    /\ cpc[c] = "idle"
    /\ IsEmpty(symbols) \/ AlreadyRunning(running) \/ RunsTaken < MaxRuns
    /\ IF IsEmpty(symbols)
       THEN /\ UNCHANGED <<running, cancel, cpc, csyms, cancelSince>>
            /\ last' = "start_empty"
       ELSE /\ running' = TRUE
            /\ cancel' = FALSE
            /\ IF AlreadyRunning(running)
               THEN /\ UNCHANGED <<cpc, csyms, cancelSince>>
                    /\ last' = "start_noop"
               ELSE /\ cpc' = [cpc EXCEPT ![c] = "spawn"]
                    /\ csyms' = [csyms EXCEPT ![c] = symbols]
                    /\ cancelSince' = FALSE
                    /\ last' = "start_acquire"
    /\ cw' = CwOff
    /\ pend' = "none"
    /\ UNCHANGED <<queue, prods, history,
                   quota, mutex>>

\* start_tracking up to and including running.swap(true): the empty check,
\* then the test-and-set.  The call returns here unless it acquired the run.
start_tracking(c, symbols) ==
    /\ cpc[c] = "idle"
    /\ IsEmpty(symbols) \/ AlreadyRunning(running) \/ RunsTaken < MaxRuns
    /\ IF IsEmpty(symbols)
       THEN /\ UNCHANGED <<running, cpc, csyms, cancelSince>>
            /\ last' = "start_empty"
       ELSE /\ running' = TRUE
            /\ IF AlreadyRunning(running)
               THEN /\ UNCHANGED <<cpc, csyms, cancelSince>>
                    /\ last' = "start_noop"
               ELSE /\ cpc' = [cpc EXCEPT ![c] = "clear"]
                    /\ csyms' = [csyms EXCEPT ![c] = symbols]
                    /\ cancelSince' = FALSE
                    /\ last' = "start_acquire"
    /\ cw' = CwOff
    /\ pend' = "none"
    /\ UNCHANGED <<cancel, queue, prods, history,
                   quota, mutex>>

\* Mutant: the queue is cleared along with the cancel flag.
ClearCancelAndQueue(c) ==
    /\ cpc[c] = "clear"
    /\ lock = 0
    /\ cancel' = FALSE
    /\ queue' = << >>
    /\ cpc' = [cpc EXCEPT ![c] = "spawn"]
    /\ last' = "clear"
    /\ UNCHANGED <<running, csyms, prods, history,
                   cw, pend, cancelSince,
                   quota, mutex>>

\* Mutant: cancel.store(false) left out.
ClearCancelSkipped(c) ==
    /\ cpc[c] = "clear"
    /\ cpc' = [cpc EXCEPT ![c] = "spawn"]
    /\ last' = "clear"
    /\ UNCHANGED <<running, cancel, queue, csyms, prods, history,
                   cw, pend, cancelSince,
                   quota, mutex>>

\* self.state.cancel.store(false)
ClearCancel(c) ==
    /\ cpc[c] = "clear"
    /\ cancel' = FALSE
    /\ cpc' = [cpc EXCEPT ![c] = "spawn"]
    /\ last' = "clear"
    /\ UNCHANGED <<running, queue, csyms, prods, history,
                   cw, pend, cancelSince,
                   quota, mutex>>

\* std::thread::spawn creates the thread: it owns the symbols and can run
\* from now on, while the caller is still inside std::thread::spawn.
Spawn(c) ==
    /\ cpc[c] = "spawn"
    /\ prods' = Append(prods, Spawned(csyms[c]))
    /\ cpc' = [cpc EXCEPT ![c] = "return"]
    /\ csyms' = [csyms EXCEPT ![c] = << >>]
    /\ last' = "spawn"
    /\ UNCHANGED <<running, cancel, queue, history,
                   cw, pend, cancelSince,
                   quota, mutex>>

\* std::thread::spawn returns, the JoinHandle is dropped and start_tracking
\* returns to its caller.
Return(c) ==
    /\ cpc[c] = "return"
    /\ cpc' = [cpc EXCEPT ![c] = "idle"]
    /\ last' = "return"
    /\ UNCHANGED <<running, cancel, queue, csyms, prods, history,
                   cw, pend, cancelSince, quota, mutex>>

\* std::thread::spawn panics when the OS cannot create the thread: the call
\* unwinds with running still true and no thread.
SpawnFail(c) ==
    /\ cpc[c] = "spawn"
    /\ cpc' = [cpc EXCEPT ![c] = "idle"]
    /\ csyms' = [csyms EXCEPT ![c] = << >>]
    /\ last' = "spawn_fail"
    /\ UNCHANGED <<running, cancel, queue, prods, history,
                   cw, pend, cancelSince,
                   quota, mutex>>

(* ------------------------------- cancel ------------------------------- *)

\* Mutant: cancel() also stores running = false.
CancelMarksStopped ==
    /\ \E c \in Callers : cpc[c] = "idle"
    /\ cancel' = TRUE
    /\ running' = FALSE
    /\ last' = "cancel"
    /\ cancelSince' = TRUE
    /\ pend' = IF running THEN "pending" ELSE "none"
    /\ cw' = IF /\ ~cw.armed
                /\ \E p \in DOMAIN prods : Alive(p)
                /\ \A d \in Callers : cpc[d] = "idle"
             THEN [CwOff EXCEPT !.armed = TRUE]
             ELSE cw
    /\ UNCHANGED <<queue, cpc, csyms, prods, history,
                   quota, mutex>>

\* cancel() by any caller thread that is not inside another call:
\* self.state.cancel.store(true).  (Named Cancel: cancel is the flag.)
\* cw starts recording when the call is made while a producer is alive and
\* no start_tracking is in progress.  pend becomes "pending" when the call is
\* made while running is true; it is reset by the next start_tracking call
\* and when running becomes false.
Cancel ==
    /\ \E c \in Callers : cpc[c] = "idle"
    /\ cancel' = TRUE
    /\ last' = "cancel"
    /\ cancelSince' = TRUE
    /\ pend' = IF running THEN "pending" ELSE "none"
    /\ cw' = IF /\ ~cw.armed
                /\ \E p \in DOMAIN prods : Alive(p)
                /\ \A d \in Callers : cpc[d] = "idle"
             THEN [CwOff EXCEPT !.armed = TRUE]
             ELSE cw
    /\ UNCHANGED <<running, queue, cpc, csyms, prods, history,
                   quota, mutex>>

(* ---------------------------- drain_updates --------------------------- *)

\* Mutant: pop_back in place of pop_front.
RECURSIVE PopLoopBack(_, _, _)
PopLoopBack(updates, q, max) ==
    IF max = 0 THEN <<updates, q>>
    ELSE IF Len(q) > 0
         THEN PopLoopBack(Append(updates, q[Len(q)]),
                          SubSeq(q, 1, Len(q) - 1), max - 1)
         ELSE <<updates, q>>

\* Mutant: 0..=max in place of 0..max, one pop too many.
RECURSIVE PopLoopInclusive(_, _, _)
PopLoopInclusive(updates, q, max) ==
    IF Len(q) > 0
    THEN IF max = 0 THEN <<Append(updates, Head(q)), Tail(q)>>
         ELSE PopLoopInclusive(Append(updates, Head(q)), Tail(q), max - 1)
    ELSE <<updates, q>>

\* for _ in 0..max { if let Some(u) = queue.pop_front() { updates.push(u) }
\* else { break } }: the pair <<updates, queue>> when the loop ends.
RECURSIVE PopLoop(_, _, _)
PopLoop(updates, q, max) ==
    IF max = 0 THEN <<updates, q>>
    ELSE IF Len(q) > 0
         THEN PopLoop(Append(updates, Head(q)), Tail(q), max - 1)
         ELSE <<updates, q>>

\* drain_updates(max) by any caller thread that is not inside another call:
\* one critical section of the queue mutex, entered when the mutex is free.
\* A poisoned mutex is entered all the same (poisoned.into_inner()).
drain_updates(max) ==
    /\ \E c \in Callers : cpc[c] = "idle"
    /\ lock = 0
    /\ LET r == PopLoop(<< >>, queue, max)
       IN /\ queue' = r[2]
          /\ drained' = drained \o r[1]
    /\ last' = "drain"
    /\ UNCHANGED <<running, cancel, cpc, csyms, prods,
                   delivered, enqueued, cw, pend, cancelSince,
                   quota, mutex>>

(* ------------------------------ producer ------------------------------ *)

\* Runtime::new() fails: the thread logs, stores running = false and returns.
RuntimeFail(p) ==
    /\ prods[p].pc = "start"
    /\ running' = FALSE
    /\ prods' = [prods EXCEPT ![p] = Done]
    /\ pend' = "none"
    /\ last' = "runtime_fail"
    /\ UNCHANGED <<cancel, queue, cpc, csyms, history,
                   cw, cancelSince,
                   quota, mutex>>

\* The new thread panics before it reaches the loop: tokio's Runtime::new()
\* panics when it cannot spawn its worker threads, the eprintln! of the Err
\* arm panics when stderr cannot be written, and rand::thread_rng() panics
\* when it cannot be seeded.  The thread is gone and running is still true.
StartupPanic(p) ==
    /\ prods[p].pc = "start"
    /\ prods' = [prods EXCEPT ![p] = Done]
    /\ last' = "startup_panic"
    /\ UNCHANGED <<running, cancel, queue, cpc, csyms, history,
                   cw, pend, cancelSince, quota, mutex>>

\* symbols.into_iter().map(|s| (s, base)).collect(): one entry per distinct
\* symbol.  The entries are kept in the order prices.iter_mut() visits them,
\* which the HashMap fixes when it is built.
SeedPrices(order, base) ==
    [i \in 1..Len(order) |-> [symbol |-> order[i], price |-> base[order[i]]]]

\* Mutant: the pairs are collected into a Vec, one entry per list element.
ProducerInitVec(p) ==
    /\ prods[p].pc = "start"
    /\ \E base \in [Range(prods[p].symbols) -> BasePrices] :
          prods' = [prods EXCEPT
                      ![p].pc = "check",
                      ![p].symbols = << >>,
                      ![p].prices = SeedPrices(prods[p].symbols, base)]
    /\ last' = "producer_init"
    /\ UNCHANGED <<running, cancel, queue, cpc, csyms, history,
                   cw, pend, cancelSince,
                   quota, mutex>>

\* Runtime::new() succeeds and the async block seeds the price map.
ProducerInit(p) ==
    /\ prods[p].pc = "start"
    /\ \E order \in Orders(Range(prods[p].symbols)) :
       \E base \in [Range(prods[p].symbols) -> BasePrices] :
          prods' = [prods EXCEPT ![p].pc = "check",
                                 ![p].symbols = << >>,
                                 ![p].prices = SeedPrices(order, base)]
    /\ last' = "producer_init"
    /\ UNCHANGED <<running, cancel, queue, cpc, csyms, history,
                   cw, pend, cancelSince,
                   quota, mutex>>

\* Mutant: the flag is tested only before the first step of a run.
CheckOnce(p) ==
    /\ prods[p].pc = "check"
    /\ (cancel /\ prods[p].steps = 0)
         \/ Len(prods[p].prices) <= quota
    /\ prods' = [prods EXCEPT
                   ![p].pc = IF cancel /\ prods[p].steps = 0 THEN "exit"
                             ELSE IF Len(prods[p].prices) = 0 THEN "sleep"
                             ELSE "emit",
                   ![p].idx = IF cancel /\ prods[p].steps = 0 THEN 0 ELSE 1]
    /\ cw' = IF cw.armed THEN [cw EXCEPT !.checked = TRUE] ELSE cw
    /\ pend' = IF pend = "pending" /\ ~cancel THEN "missed" ELSE pend
    /\ last' = "check"
    /\ UNCHANGED <<running, cancel, queue, cpc, csyms, history,
                   cancelSince,
                   quota, mutex>>

\* while !state.cancel.load(): leave the loop when the flag is set, else
\* begin a step (a for loop over no entries falls through to the sleep).
\* pend becomes "missed" when the load reads false while a cancel() is pending.
Check(p) ==
    /\ prods[p].pc = "check"
    /\ cancel \/ Len(prods[p].prices) <= quota
    /\ prods' = [prods EXCEPT
                   ![p].pc = IF cancel THEN "exit"
                             ELSE IF Len(prods[p].prices) = 0 THEN "sleep"
                             ELSE "emit",
                   ![p].idx = IF cancel THEN 0 ELSE 1]
    /\ cw' = IF cw.armed THEN [cw EXCEPT !.checked = TRUE] ELSE cw
    /\ pend' = IF pend = "pending" /\ ~cancel THEN "missed" ELSE pend
    /\ last' = "check"
    /\ UNCHANGED <<running, cancel, queue, cpc, csyms, history,
                   cancelSince,
                   quota, mutex>>

\* Mutant: the .max(0.01) left out.
StepPriceNoFloor(price, delta) == price + delta

\* *price = (*price + delta).max(0.01)
StepPrice(price, delta) == Max(price + delta, Floor)

\* The values current_timestamp_ms() can return: the wall clock in ms since
\* the epoch, read anew for every update, and 0 when the clock stands before
\* the epoch (unwrap_or_default).  The wall clock can be set, so one reading
\* says nothing about the next.
Clock == {0, 1}

\* PriceUpdate { symbol, price, timestamp_ms: current_timestamp_ms() }
PriceUpdate(symbol, price, timestamp_ms) ==
    [symbol |-> symbol, price |-> price, timestamp_ms |-> timestamp_ms]

\* Mutant: the queue is locked before the listener is called, and the guard
\* is kept across the call.
EmitUnderLock(p, delta, timestamp_ms) ==
    /\ prods[p].pc = "emit"
    /\ lock = 0
    /\ LET i == prods[p].idx
           entry == prods[p].prices[i]
           price == StepPrice(entry.price, delta)
           update == PriceUpdate(entry.symbol, price, timestamp_ms)
       IN /\ prods' = [prods EXCEPT ![p].pc = "listener",
                                    ![p].prices[i].price = price,
                                    ![p].cur = update]
          /\ delivered' = Append(delivered, update)
          /\ cw' = IF cw.armed
                   THEN [cw EXCEPT !.syms = Append(cw.syms, entry.symbol),
                                   !.late = cw.late \/ cw.checked]
                   ELSE cw
    /\ lock' = p
    /\ quota' = quota - 1
    /\ last' = "emit"
    /\ UNCHANGED <<running, cancel, queue, cpc, csyms,
                   enqueued, drained, pend, cancelSince, poisoned>>

\* The loop body up to the call of listener.on_price(update.clone()): the
\* RNG yields delta, the price moves, the clock reads timestamp_ms, the
\* update is built and handed to the listener.  The producer is then inside
\* on_price; it holds no lock.
Emit(p, delta, timestamp_ms) ==
    /\ prods[p].pc = "emit"
    /\ LET i == prods[p].idx
           entry == prods[p].prices[i]
           price == StepPrice(entry.price, delta)
           update == PriceUpdate(entry.symbol, price, timestamp_ms)
       IN /\ prods' = [prods EXCEPT ![p].pc = "listener",
                                    ![p].prices[i].price = price,
                                    ![p].cur = update]
          /\ delivered' = Append(delivered, update)
          /\ cw' = IF cw.armed
                   THEN [cw EXCEPT !.syms = Append(cw.syms, entry.symbol),
                                   !.late = cw.late \/ cw.checked]
                   ELSE cw
    /\ quota' = quota - 1
    /\ last' = "emit"
    /\ UNCHANGED <<running, cancel, queue, cpc, csyms,
                   enqueued, drained, pend, cancelSince, mutex>>

\* The producers after p has finished the loop body for one entry: on to the
\* next entry of the map, or to the sleep after the last one.
NextEntry(p) ==
    IF prods[p].idx < Len(prods[p].prices)
    THEN [prods EXCEPT ![p].pc = "emit",
                       ![p].idx = prods[p].idx + 1,
                       ![p].cur = NoUpdate]
    ELSE [prods EXCEPT ![p].pc = "sleep",
                       ![p].idx = 0,
                       ![p].cur = NoUpdate,
                       ![p].steps = prods[p].steps + 1]

\* listener.on_price(update.clone()) panics.  Nothing catches the unwinding:
\* it leaves block_on and the thread's closure, and the thread ends without
\* reaching state.queue.lock() or running.store(false).  The update was
\* handed to the listener and is never pushed; running is still true.  The
\* mutex is not held during the call, so it is not poisoned.
ListenerPanic(p) ==
    /\ prods[p].pc = "listener"
    /\ prods' = [prods EXCEPT ![p] = Done]
    /\ last' = "listener_panic"
    /\ UNCHANGED <<running, cancel, queue, cpc, csyms, history,
                   cw, pend, cancelSince, quota, mutex>>

\* on_price has returned and state.queue.lock() returns.  Ok(guard): the
\* producer holds the mutex.  Err(poisoned): the if let does not match, the
\* guard inside the error is dropped and the update is not pushed.
LockQueue(p) ==
    /\ prods[p].pc = "listener"
    /\ lock = 0
    /\ IF poisoned
       THEN /\ prods' = NextEntry(p)
            /\ UNCHANGED lock
       ELSE /\ prods' = [prods EXCEPT ![p].pc = "push"]
            /\ lock' = p
    /\ last' = "lock"
    /\ UNCHANGED <<running, cancel, queue, cpc, csyms, history,
                   cw, pend, cancelSince, poisoned, quota>>

\* Mutant: the update is not pushed.
EnqueueSkipped(p) ==
    /\ prods[p].pc = "push"
    /\ lock' = 0
    /\ prods' = NextEntry(p)
    /\ last' = "enqueue"
    /\ UNCHANGED <<running, cancel, queue, cpc, csyms,
                   history, cw, pend, cancelSince, poisoned, quota>>

\* queue.push_back(update) under the guard, which is dropped at the end of
\* the if let block.
Enqueue(p) ==
    /\ prods[p].pc = "push"
    /\ queue' = Append(queue, prods[p].cur)
    /\ enqueued' = Append(enqueued, prods[p].cur)
    /\ lock' = 0
    /\ prods' = NextEntry(p)
    /\ last' = "enqueue"
    /\ UNCHANGED <<running, cancel, cpc, csyms,
                   delivered, drained, cw, pend, cancelSince, poisoned, quota>>

\* Mutant: running.store(false) at the end of every step, inside the loop.
SleepStoresStopped(p) ==
    /\ prods[p].pc = "sleep"
    /\ running' = FALSE
    /\ prods' = [prods EXCEPT ![p].pc = "check"]
    /\ last' = "sleep"
    /\ UNCHANGED <<cancel, queue, cpc, csyms, history,
                   cw, pend, cancelSince,
                   quota, mutex>>

\* sleep(Duration::from_millis(500)).await ends.
Sleep(p) ==
    /\ prods[p].pc = "sleep"
    /\ prods' = [prods EXCEPT ![p].pc = "check"]
    /\ last' = "sleep"
    /\ UNCHANGED <<running, cancel, queue, cpc, csyms, history,
                   cw, pend, cancelSince,
                   quota, mutex>>

\* state.running.store(false) after the loop; the thread then prints
\* "TickerEngine stopped" and returns.
Exit(p) ==
    /\ prods[p].pc = "exit"
    /\ running' = FALSE
    /\ prods' = [prods EXCEPT ![p] = Done]
    /\ pend' = "none"
    /\ last' = "exit"
    /\ UNCHANGED <<cancel, queue, cpc, csyms, history,
                   cw, cancelSince,
                   quota, mutex>>

(* ------------------------------- system ------------------------------- *)

Next ==
    \/ \E c \in Callers : \E symbols \in SymLists : start_tracking(c, symbols)
    \/ \E c \in Callers : ClearCancel(c)
    \/ \E c \in Callers : Spawn(c)
    \/ \E c \in Callers : SpawnFail(c)
    \/ \E c \in Callers : Return(c)
    \/ Cancel
    \/ \E max \in 0..MaxDrain : drain_updates(max)
    \/ \E p \in DOMAIN prods : RuntimeFail(p)
    \/ \E p \in DOMAIN prods : StartupPanic(p)
    \/ \E p \in DOMAIN prods : ProducerInit(p)
    \/ \E p \in DOMAIN prods : Check(p)
    \/ \E p \in DOMAIN prods : \E delta \in OneDelta : \E t \in Clock :
          Emit(p, delta, t)
    \/ \E p \in DOMAIN prods : ListenerPanic(p)
    \/ \E p \in DOMAIN prods : LockQueue(p)
    \/ \E p \in DOMAIN prods : Enqueue(p)
    \/ \E p \in DOMAIN prods : Sleep(p)
    \/ \E p \in DOMAIN prods : Exit(p)

Spec == Init /\ [][Next]_vars

\* Every producer thread is scheduled again and again, its listener calls
\* end and its sleeps end: a step a thread can take is taken.  (Whether
\* Runtime::new() succeeds or panics, and whether on_price returns or
\* panics, is not a matter of scheduling.)
Fairness ==
    \A p \in 1..MaxRuns :
       /\ WF_vars(p \in DOMAIN prods
                     /\ (RuntimeFail(p) \/ StartupPanic(p) \/ ProducerInit(p)))
       /\ WF_vars(p \in DOMAIN prods /\ Check(p))
       /\ WF_vars(p \in DOMAIN prods
                     /\ \E delta \in OneDelta : \E t \in Clock :
                           Emit(p, delta, t))
       /\ WF_vars(p \in DOMAIN prods /\ (ListenerPanic(p) \/ LockQueue(p)))
       /\ WF_vars(p \in DOMAIN prods /\ Enqueue(p))
       /\ WF_vars(p \in DOMAIN prods /\ Sleep(p))
       /\ WF_vars(p \in DOMAIN prods /\ Exit(p))

FairSpec == Init /\ [][Next]_vars /\ Fairness

(* --------------------------- the price walk --------------------------- *)

\* An engine in the middle of a run: the producer has completed earlier
\* steps, which moved its prices anywhere from the floor upwards, their
\* updates have been drained, and it is about to load the cancel flag.  The
\* histories begin in this state.
InitPrice ==
    /\ running = TRUE
    /\ cancel = FALSE
    /\ queue = << >>
    /\ cpc = [c \in Callers |-> "idle"]
    /\ csyms = [c \in Callers |-> << >>]
    /\ \E symbols \in SymLists \ {<< >>} :
       \E order \in Orders(Range(symbols)) :
       \E walked \in [Range(symbols) -> WalkedPrices] :
          prods = << [pc |-> "check", symbols |-> << >>,
                      prices |-> SeedPrices(order, walked),
                      idx |-> 0, cur |-> NoUpdate, steps |-> 1] >>
    /\ delivered = << >>
    /\ enqueued = << >>
    /\ drained = << >>
    /\ last = "sleep"
    /\ cw = CwOff
    /\ pend = "none"
    /\ cancelSince = FALSE
    /\ lock = 0
    /\ poisoned = FALSE
    /\ quota = MaxUpdates

\* The run from there on: the producer's steps, cancel and drain_updates.
NextPrice ==
    \/ Cancel
    \/ \E max \in 0..MaxDrain : drain_updates(max)
    \/ \E p \in DOMAIN prods : Check(p)
    \/ \E p \in DOMAIN prods : \E delta \in Deltas : \E t \in Clock :
          Emit(p, delta, t)
    \/ \E p \in DOMAIN prods : ListenerPanic(p)
    \/ \E p \in DOMAIN prods : LockQueue(p)
    \/ \E p \in DOMAIN prods : Enqueue(p)
    \/ \E p \in DOMAIN prods : Sleep(p)
    \/ \E p \in DOMAIN prods : Exit(p)

SpecPrice == InitPrice /\ [][NextPrice]_vars

(* ------------------------- one run, step by step --------------------- *)

\* The symbols that occur in the arguments of start_tracking.
Symbols == UNION {Range(symbols) : symbols \in SymLists}

\* An engine as a first start_tracking(symbols, listener) leaves it when it
\* returns: running, not cancelled, the queue empty, the producer thread
\* spawned and owning the list.  The run may take MaxSteps steps over every
\* symbol.
InitSteps ==
    /\ running = TRUE
    /\ cancel = FALSE
    /\ queue = << >>
    /\ cpc = [c \in Callers |-> "idle"]
    /\ csyms = [c \in Callers |-> << >>]
    /\ \E symbols \in SymLists \ {<< >>} : prods = << Spawned(symbols) >>
    /\ delivered = << >>
    /\ enqueued = << >>
    /\ drained = << >>
    /\ last = "spawn"
    /\ cw = CwOff
    /\ pend = "none"
    /\ cancelSince = FALSE
    /\ lock = 0
    /\ poisoned = FALSE
    /\ quota = MaxSteps * Cardinality(Symbols)

\* That run and cancel.
NextSteps ==
    \/ Cancel
    \/ \E p \in DOMAIN prods : ProducerInit(p)
    \/ \E p \in DOMAIN prods : Check(p)
    \/ \E p \in DOMAIN prods : \E delta \in OneDelta : \E t \in Clock :
          Emit(p, delta, t)
    \/ \E p \in DOMAIN prods : ListenerPanic(p)
    \/ \E p \in DOMAIN prods : LockQueue(p)
    \/ \E p \in DOMAIN prods : Enqueue(p)
    \/ \E p \in DOMAIN prods : Sleep(p)
    \/ \E p \in DOMAIN prods : Exit(p)

SpecSteps == InitSteps /\ [][NextSteps]_vars

(* ------------------------------- claims ------------------------------- *)

\* The producers that have neither stored running = false nor panicked.
AliveProducers == {p \in DOMAIN prods : Alive(p)}

\* C1: in every reachable state at most one producer is alive, whatever the
\* interleaving of start_tracking steps of several callers, cancel,
\* drain_updates and producer steps; a producer and a caller that has
\* acquired the run and not yet spawned never coexist either.
C1_AtMostOneProducer ==
    Cardinality(AliveProducers) + Cardinality({c \in Callers : Holding(c)}) <= 1

\* A start_tracking was refused after cancel(), while the cancelled producer
\* had seen the flag but not yet stored running = false.
C1_Witness ==
    /\ last = "start_noop"
    /\ cancel
    /\ \E p \in DOMAIN prods : prods[p].pc = "exit"

\* C2: a start_tracking call with a non-empty list made while running is true
\* changes nothing: no producer is spawned, cancel, the queue, the producers
\* and their symbols stay as they were, and the call returns at once.
C2_RedundantStartNoOp ==
    [][\A c \in Callers : \A symbols \in SymLists :
          (~IsEmpty(symbols) /\ running /\ start_tracking(c, symbols))
             => UNCHANGED <<running, cancel, queue, prods, cpc, csyms,
                            delivered, enqueued>>]_vars

\* A redundant start_tracking has just returned while a cancel request was
\* pending for a producer that is between two steps.
C2_Witness ==
    /\ last = "start_noop"
    /\ cancel
    /\ running
    /\ Cardinality(AliveProducers) = 1
    /\ \E p \in DOMAIN prods : prods[p].pc = "sleep"

\* C3: start_tracking with an empty list changes nothing in any engine state:
\* running, cancel, the queue and the producers are unchanged, the caller has
\* returned, and the listener is not invoked.
C3_EmptyStartNoOp ==
    [][\A c \in Callers :
          start_tracking(c, << >>)
             => UNCHANGED <<running, cancel, queue, prods, cpc, csyms,
                            delivered, enqueued>>]_vars

\* An empty start_tracking has just returned on an idle engine whose cancel
\* flag is set.
C3_Witness ==
    /\ last = "start_empty"
    /\ ~running
    /\ cancel
    /\ prods # << >>

\* C4: the drain results in the order the drains took effect, followed by the
\* queue, are the updates in the order they were enqueued.
C4_Fifo == drained \o queue = enqueued

\* A drain and the enqueues have interleaved: an update was drained, another
\* was enqueued after that and is in the queue.
C4_Witness ==
    /\ Len(drained) >= 1
    /\ Len(queue) >= 1
    /\ Len(enqueued) = MaxUpdates
    /\ last = "enqueue"

\* C5: drain_updates(max) on a queue of length L returns its first
\* min(max, L) elements in order and leaves the other L - min(max, L) in
\* order.
C5_DrainExact ==
    [][\A max \in 0..MaxDrain :
          drain_updates(max)
             => LET n == Min(max, Len(queue))
                IN /\ drained' = drained \o SubSeq(queue, 1, n)
                   /\ queue' = SubSeq(queue, n + 1, Len(queue))]_vars

\* A drain has just returned one update of two and left the other in the
\* queue.
C5_Witness ==
    /\ last = "drain"
    /\ Len(drained) = 1
    /\ Len(queue) = 1

\* C6: once cancel() has returned while a producer was alive and no
\* start_tracking was in progress, and until a start_tracking call begins, the
\* run emits at most one further update per symbol, and none after the
\* producer's next load of the cancel flag.
C6_CancelBound ==
    cw.armed => (NoDup(cw.syms) /\ ~cw.late)

\* After such a cancel() the run emitted one more update for each of its two
\* symbols and then saw the flag.
C6_Witness ==
    /\ cw.armed
    /\ Len(cw.syms) = 2
    /\ cw.checked
    /\ \E p \in DOMAIN prods : prods[p].pc = "exit"

\* C7: the producer's load of the cancel flag that follows a cancel() which
\* returned while running was true, with no start_tracking call begun since,
\* reads true (so the run ends and running becomes false).
C7_CancelObserved == pend # "missed"

\* C8: a start_tracking with a non-empty list that finds running false
\* acquires the run and goes on to clear the flag and spawn; the producer it
\* spawns leaves the loop before its first step only if cancel() was called
\* after that start_tracking acquired the run; and the producer executes a
\* full step: its thread ends without a completed step only if startup
\* failed or cancel() was called after the run was acquired.
C8_RestartNotPreCancelled ==
    /\ [](\A p \in DOMAIN prods :
             (prods[p].pc = "exit" /\ prods[p].steps = 0) => cancelSince)
    /\ [][\A c \in Callers : \A symbols \in SymLists :
             (~IsEmpty(symbols) /\ ~running /\ start_tracking(c, symbols))
                => (running' /\ cpc'[c] = "clear")]_vars
    /\ [][\A p \in DOMAIN prods :
             (Alive(p) /\ ~Alive(p)' /\ prods[p].steps = 0)
                => \/ cancelSince
                   \/ last' \in {"runtime_fail", "startup_panic"}]_vars

\* The second run, started after the first one was cancelled and with no
\* cancel() since, has completed a step.
C8_Witness ==
    /\ Len(prods) = 2
    /\ prods[1] = Done
    /\ prods[2].pc = "sleep"
    /\ prods[2].steps >= 1
    /\ ~cancelSince
    /\ Len(delivered) > prods[2].steps * Len(prods[2].prices)

\* C9: every price handed to the listener or enqueued is at least the floor
\* and so strictly positive, whatever the deltas.
C9_PriceFloor ==
    \A i \in DOMAIN delivered :
       delivered[i].price >= Floor /\ delivered[i].price > 0

\* A symbol was emitted twice at the floor: two negative deltas in a row
\* were clamped.
C9_Witness ==
    \E i, j \in DOMAIN delivered :
       /\ i < j
       /\ delivered[i].symbol = delivered[j].symbol
       /\ delivered[i].price = Floor
       /\ delivered[j].price = Floor

\* C10: every update goes to the listener once and then onto the queue once:
\* the updates enqueued so far are a prefix of those delivered, shorter by at
\* most one, and the same whenever no producer is between the listener call
\* and the push.
C10_ListenerThenQueue ==
    /\ Len(enqueued) <= Len(delivered)
    /\ enqueued = SubSeq(delivered, 1, Len(enqueued))
    /\ Len(delivered) - Len(enqueued) <= 1
    /\ (\A p \in DOMAIN prods : prods[p].pc \notin {"listener", "push"})
          => enqueued = delivered

\* A producer has handed its second update to the listener and not yet
\* pushed it.
C10_Witness ==
    /\ \E p \in DOMAIN prods : prods[p].pc = "push"
    /\ Len(delivered) = 2
    /\ Len(enqueued) = 1

\* The symbols of the price map of producer p, in the order prices.iter_mut()
\* visits them.
Tracked(p) == [i \in DOMAIN prods[p].prices |-> prods[p].prices[i].symbol]

\* The entries of the map producer p has visited in the step in progress.
Visited(p) ==
    IF prods[p].pc \in {"listener", "push"} THEN prods[p].idx
    ELSE IF prods[p].pc = "emit" THEN prods[p].idx - 1
    ELSE 0

\* The symbols handed to the listener in the s-th completed step of the run
\* of producer p, in the order of the calls, when every update delivered so
\* far is of that run: the s-th block of Len(Tracked(p)) updates.
StepSyms(p, s) ==
    [i \in DOMAIN Tracked(p) |->
        delivered[(s - 1) * Len(Tracked(p)) + i].symbol]

\* C11: the price map holds each distinct symbol of the list passed to
\* start_tracking once; every completed step of the run handed the listener
\* exactly one update per entry of the map, in the map's order, which is
\* therefore the same in every step; the step in progress has done so for the
\* entries visited so far.
C11_OnePerSymbolSameOrder ==
    /\ [][\A p \in DOMAIN prods :
             ProducerInit(p)
                => /\ NoDup(Tracked(p)')
                   /\ Range(Tracked(p)') = Range(prods[p].symbols)]_vars
    /\ [](\A p \in DOMAIN prods :
             prods[p].pc \notin {"start", "done"}
                => LET n == Len(Tracked(p))
                       done == prods[p].steps * n
                   IN /\ Len(delivered) = done + Visited(p)
                      /\ \A s \in 1..prods[p].steps :
                            StepSyms(p, s) = Tracked(p)
                      /\ \A i \in 1..Visited(p) :
                            delivered[done + i].symbol = Tracked(p)[i])

\* A run over two symbols, whose map visits B before A, has completed two
\* steps.
C11_Witness ==
    \E p \in DOMAIN prods :
       /\ prods[p].steps = 2
       /\ Tracked(p) = <<"B", "A">>
       /\ StepSyms(p, 1) = <<"B", "A">>
       /\ StepSyms(p, 2) = <<"B", "A">>

\* C12: every step that hands an update to the listener or pushes one onto
\* the queue is a step of a producer that has not stored running = false,
\* taken in a state where running is true and leaving it true.
C12_NoEmissionOutsideRun ==
    [][/\ delivered' # delivered
          => /\ running /\ running'
             /\ \E p \in DOMAIN prods : \E delta \in Deltas : \E t \in Clock :
                   Alive(p) /\ Emit(p, delta, t)
       /\ (enqueued' # enqueued \/ Len(queue') > Len(queue))
          => /\ running /\ running'
             /\ \E p \in DOMAIN prods : Alive(p) /\ Enqueue(p)]_vars

\* The producer of a second run has pushed an update after the producer of
\* the first run had stored running = false, and with a cancel request
\* pending.
C12_Witness ==
    /\ last = "enqueue"
    /\ Len(prods) = 2
    /\ prods[1] = Done
    /\ running
    /\ cancel
    /\ Len(enqueued) = 2

\* C13: when the thread or the async runtime of a run that has acquired
\* running cannot be created, the engine is back at running = false as soon
\* as the failure has been handled.
C13_StartupFailureStops ==
    last \in {"spawn_fail", "runtime_fail", "startup_panic"} => ~running

\* The producers that have handed an update to the listener and not yet
\* pushed it.
InFlight == {p \in DOMAIN prods : prods[p].pc \in {"listener", "push"}}

\* C14: enqueue never drops data: every update that was handed to the
\* listener and is not on the queue's history yet is in the hands of a
\* producer that is between the listener call and the push, and will push it.
C14_EnqueueNeverDrops ==
    Len(delivered) - Len(enqueued) = Cardinality(InFlight)

\* C15: the queue mutex is held by a producer only between its lock and its
\* push: never inside on_price, never during the sleep.  So whenever a caller
\* is between calls, cancel and start_tracking can take their step, and
\* drain_updates can too unless a push is in progress, which waits for
\* nothing; and a start_tracking that has created the thread can return
\* wherever the producer is, before its first step as well as later.
C15_LockOnlyForPush ==
    /\ lock # 0 => (prods[lock].pc = "push" /\ ENABLED Enqueue(lock))
    /\ (\E c \in Callers : cpc[c] = "idle")
          => /\ ENABLED Cancel
             /\ \A c \in Callers :
                   \A symbols \in SymLists :
                      (/\ cpc[c] = "idle"
                       /\ IsEmpty(symbols) \/ running \/ RunsTaken < MaxRuns)
                         => ENABLED start_tracking(c, symbols)
             /\ lock = 0 =>
                   \A max \in 0..MaxDrain : ENABLED drain_updates(max)
    /\ \A c \in Callers : cpc[c] = "return" => ENABLED Return(c)

\* drain_updates has just returned an update while the producer is inside
\* on_price with the next one.
C15_Witness ==
    /\ last = "drain"
    /\ Len(drained) = 1
    /\ lock = 0
    /\ \E p \in DOMAIN prods : prods[p].pc = "listener"

\* C16: a cancel() sets the cancel flag and changes nothing else of the
\* engine: running, the queue and its mutex, the callers, the producers and
\* what has been delivered, enqueued and drained stay as they were;
\* and a cancel() that directly follows a cancel() changes nothing at all.
C16_CancelOnlySetsFlag ==
    [][last' = "cancel"
          => /\ cancel'
             /\ UNCHANGED <<running, queue, lock, poisoned, cpc, csyms, prods,
                            delivered, enqueued, drained>>
             /\ last = "cancel" => UNCHANGED cancel]_vars

\* cancel() has just returned on an engine whose only run has ended and left
\* an update in the queue.
C16_Witness ==
    /\ last = "cancel"
    /\ cancel
    /\ ~running
    /\ prods # << >>
    /\ AliveProducers = {}
    /\ queue # << >>

\* C17: a start_tracking with a non-empty list that executes after a cancel()
\* and while the cancelled producer is still alive changes nothing; while
\* that producer is alive the cancel flag stays set and no run is acquired or
\* spawned; its exit leaves running = false with no producer and no caller
\* about to spawn one, and with fair scheduling it does exit; a producer is
\* spawned only by a start_tracking that found running false.
C17_LostRestart ==
    /\ [][(last' = "start_noop" /\ cancel /\ AliveProducers # {})
             => UNCHANGED <<running, cancel, queue, prods, cpc, csyms>>]_vars
    /\ [][(cancel /\ AliveProducers # {})
             => /\ cancel'
                /\ Len(prods') = Len(prods)
                /\ \A c \in Callers : ~Holding(c)']_vars
    /\ [][\A p \in DOMAIN prods :
             Exit(p) => /\ ~running'
                        /\ AliveProducers' = {}
                        /\ \A c \in Callers : ~Holding(c)']_vars
    /\ [][/\ Len(prods') > Len(prods) => \E c \in Callers : cpc[c] = "spawn"
          /\ \A c \in Callers :
                (~Holding(c) /\ Holding(c)')
                   => (~running /\ AliveProducers = {}
                          /\ last' = "start_acquire")]_vars
    /\ (last = "start_noop" /\ cancel /\ AliveProducers # {})
          ~> (/\ ~running
              /\ AliveProducers = {}
              /\ \A c \in Callers : ~Holding(c))

\* A start_tracking has just been discarded: cancel() was called while the
\* producer was inside on_price, and the call found running still true.
C17_Witness ==
    /\ last = "start_noop"
    /\ cancel
    /\ running
    /\ \E p \in DOMAIN prods : prods[p].pc = "listener"
    /\ \A c \in Callers : cpc[c] = "idle"

\* C18: a step other than a drain_updates keeps the queue as a prefix of the
\* new queue, and a step that is neither a drain_updates nor a producer's
\* push leaves the queue as it is (so cancel, a producer's exit and every
\* step of start_tracking do); the queue is always the tail end of all that
\* was ever enqueued, in that order, whichever run enqueued it.
C18_QueueSurvives ==
    /\ [][/\ last' # "drain"
             => /\ Len(queue') >= Len(queue)
                /\ SubSeq(queue', 1, Len(queue)) = queue
          /\ last' \notin {"drain", "enqueue"} => queue' = queue]_vars
    /\ [](/\ Len(queue) <= Len(enqueued)
          /\ queue = SubSeq(enqueued, Len(enqueued) - Len(queue) + 1,
                            Len(enqueued)))

\* The first run has ended and left its update in the queue; the second run,
\* over one symbol, has completed a step, and its update is behind that one.
C18_Witness ==
    /\ Len(prods) = 2
    /\ prods[1] = Done
    /\ prods[2].pc = "sleep"
    /\ prods[2].steps = 1
    /\ Len(prods[2].prices) = 1
    /\ Len(queue) = 2
    /\ queue = enqueued

=============================================================================
